---- MODULE Spec2Model ----
(***************************************************************************)
(* poUIrup: the key remap engine of src/src/app.py (class Keyboard) and    *)
(* the gesture recognizer with its pointer and trackpad adapters of        *)
(* src/source/main.py.                                                     *)
(*                                                                         *)
(* The keyboard engine runs in two threads: the listener thread, which     *)
(* calls _handle_listener_press / _handle_listener_release one event at a  *)
(* time, and one threading.Timer thread per sticky latch, which runs the   *)
(* expiry lambda.  No lock is taken anywhere, so the lambda's test of      *)
(* _last_mod and its call of _release_pressed_mods are two steps of the    *)
(* timer thread between which the listener thread may run.                 *)
(***************************************************************************)
EXTENDS Integers, Sequences, FiniteSets, TLC

(***************************************************************************)
(* Bounds of the model.                                                    *)
(***************************************************************************)
MaxTimers == 1
MaxCount == 2

(***************************************************************************)
(* Key codes.  The physical keys and the four real modifiers carry the     *)
(* virtual-key codes pynput gives them on macOS; FN, SPEC and TOG are the  *)
(* engine's own virtual modifiers (>= 0x100).                              *)
(***************************************************************************)
A == 0
B == 11
ONE == 18
SPACE == 49
ESC == 53
CMD == 55
SHIFT == 56
CAPS_LOCK == 57
ALT == 58
CTRL == 59
F5 == 96
F11 == 103
F13 == 105
LEFT == 123
FN == 256
SPEC == 257
TOG == 258
NoKey == -1

MODS == <<SHIFT, CTRL, ALT, CMD, FN, SPEC, TOG>>

ModSet == {MODS[i] : i \in 1..Len(MODS)}

(***************************************************************************)
(* Configuration.  Keyboard.configure() executes config/mac_os_default.py, *)
(* which is not part of the sources; the tables below are a small          *)
(* configuration of the shape the engine expects: two dual-role sticky     *)
(* keys (SPACE: Shift / tap Space, CAPS_LOCK: Fn / tap Esc), one character *)
(* key A that is also a function-layer key (Fn+A = Left), and F5, which is *)
(* in no table.  Durations are in clock ticks.                             *)
(***************************************************************************)
KEY_MASK == F13
MIN_STICKY_TRIGGER_DURATION == 1
MAX_STICKY_TRIGGER_DURATION == 2
STICKY_DURATION == 1

PhysKeys == {SPACE, CAPS_LOCK, A, B, F5, F11}

(***************************************************************************)
(* Time.  time.time() enters the engine only through the difference        *)
(* time_released - time_pressed, compared with the two trigger durations,  *)
(* and through the Timer's delay.  The state therefore keeps, in place of  *)
(* each time stamp, the time elapsed since it (held_for), and in place of  *)
(* each Timer's expiry time the time left to it; KTick lets one tick pass. *)
(* Elapsed times stop growing at MAX_STICKY_TRIGGER_DURATION, from where   *)
(* on every comparison the code makes has the same outcome.  A time stamp  *)
(* the code never reads is not aged: the one of _last_press, and the one   *)
(* of a record that is neither sticky nor has a tap key (both tests of     *)
(* time_released - time_pressed are then cut short before they read it).   *)
(***************************************************************************)
Older(d) == IF d < MAX_STICKY_TRIGGER_DURATION THEN d + 1 ELSE d

Aged(rec) ==
  IF rec.is_sticky \/ rec.tap_key # -1 THEN [rec EXCEPT !.held_for = Older(@)] ELSE rec

\* in_key -> (can_repeat, should_release_stickies, func)
EXECUTION_LAYOUT ==
  [k \in {SPACE, CAPS_LOCK} |->
     IF k = SPACE
     THEN [can_repeat |-> FALSE, should_release_stickies |-> FALSE,
           func |-> [kind |-> "press_dual", out |-> SHIFT, tap |-> SPACE, is_sticky |-> TRUE]]
     ELSE [can_repeat |-> FALSE, should_release_stickies |-> FALSE,
           func |-> [kind |-> "press_dual", out |-> FN, tap |-> ESC, is_sticky |-> TRUE]]]

\* in_key -> (can_repeat, should_release_stickies, func)
FUNCTION_LAYOUT ==
  [k \in {A} |->
     [can_repeat |-> TRUE, should_release_stickies |-> TRUE,
      func |-> [kind |-> "press_key", out |-> LEFT, tap |-> NoKey, is_sticky |-> FALSE]]]

\* in_shift -> (in_key -> (out_key, should_press_shift))
NORMAL_LAYOUT ==
  [in_shift \in BOOLEAN |->
     [k \in {A, B} |->
        IF k = A
        THEN (IF in_shift THEN [out_key |-> ONE, out_shift |-> FALSE]
                          ELSE [out_key |-> A, out_shift |-> FALSE])
        ELSE (IF in_shift THEN [out_key |-> B, out_shift |-> TRUE]
                          ELSE [out_key |-> ONE, out_shift |-> TRUE])]]

SHIFT_LOCKED_KEYS == {A}

\* the keys whose table entry makes a sticky record
StickyKeys == {k \in DOMAIN EXECUTION_LAYOUT : EXECUTION_LAYOUT[k].func.is_sticky}

(***************************************************************************)
(* State of class Keyboard, the pending Timer threads, and the clock.      *)
(***************************************************************************)
VARIABLES
  listening,              \* the listener has not been stopped
  pressed_mods,
  shift_lock,
  pressed_keys,           \* in_key -> record, NoRec when absent
  last_press,             \* <<time elapsed, in_key>>
  last_mod,
  pressed_count_by_mod,
  has_stickies,
  timers,                 \* the Timer threads started and not yet finished
  obs                     \* history: one sticky latch and its expiry callback

kvars == <<listening, pressed_mods, shift_lock, pressed_keys, last_press,
           last_mod, pressed_count_by_mod, has_stickies, timers, obs>>

(***************************************************************************)
(* State of src/source/main.py: the records main() builds, the module      *)
(* constant _ALLOW_GESTURES_BY_RIGHT_BUTTON, and the histories robs and    *)
(* aobs the properties of the recognizer and of the adapters read.         *)
(* Lengths are in units of 1/216 inch, the length of one pixel of cursor   *)
(* movement (PIXELS_PER_INCH_MOVED); times are in ticks of 1/120 s.        *)
(***************************************************************************)
VARIABLES
  gesture_state,
  mouse_state,
  trackpad_state,
  pressed_keys_and_buttons,          \* tracker_state.pressed_keys_and_buttons
  allow_gestures_by_right_button,
  robs,
  aobs,
  quantizer                          \* a displacement and the movement computed for it

gvars == <<gesture_state, mouse_state, trackpad_state, pressed_keys_and_buttons,
           allow_gestures_by_right_button, robs, aobs, quantizer>>

vars == <<kvars, gvars>>

PIXELS_PER_INCH_MOVED == 216
TicksPerSecond == 120
MIN_SPEED_TO_UPDATE_GESTURE_INCHES_PER_SECOND == 3
MIN_FINGER_SPEED_TO_START_GESTURE_INCHES_PER_SECOND == 3
MIN_FINGERS_TO_START_GESTURE_FROM_TRACKPAD == 4

\* 1 / 24 s
MIN_GESTURE_UPDATE_INTERVAL_SECONDS == TicksPerSecond \div 24

\* 0.25 inch
MIN_MOVEMENT_DISTANCE_TO_RECOGNIZE_INCHES == PIXELS_PER_INCH_MOVED \div 4

\* Time stamps are kept as the time elapsed since them, which stops growing at
\* LongAgo: no displacement the adapters are given here is 3 inches per second
\* over LongAgo ticks or more, so every test the code makes has from there on
\* the same outcome.  -math.inf is LongAgo.
LongAgo == 4 * MIN_GESTURE_UPDATE_INTERVAL_SECONDS

NoGesture == <<>>

\* GestureState(...) in main(); None is "none"
InitGestureState ==
  [gesture_source |-> "none", gesture_recognized |-> NoGesture,
   pending_movement |-> "none", pending_movement_distance |-> 0,
   is_gesture_paused |-> FALSE]

\* MouseState(...) in main(); recorded_ago is the time since recorded_time
InitMouseState ==
  [is_making_gesture |-> FALSE, recorded_position |-> <<0, 0>>,
   recorded_ago |-> LongAgo]

\* TrackpadState(...) in main(); finger positions are functions from the ids
\* of the fingers on the pad, prev_recorded_ago is the time since
\* prev_recorded_time
InitTrackpadState ==
  [is_making_gesture |-> FALSE, fingers_making_gesture |-> {},
   prev_recorded_finger_positions |-> <<>>, prev_recorded_ago |-> LongAgo,
   curr_recorded_finger_positions |-> <<>>]

NoRobs ==
  [fed |-> "none", d |-> <<0, 0>>, t |-> 0, appended |-> FALSE,
   run_dir |-> "none", run_dist |-> 0, run_appends |-> 0, pause_since_append |-> FALSE, after_pause |-> <<>>,
   scenario |-> 0, performed |-> NoGesture]

NoAobs ==
  [ended |-> "none", performed |-> NoGesture, attempt |-> "none",
   suppress |-> FALSE, emulated |-> <<>>]

NoQuantizer == [d |-> <<0, 0>>, movement |-> "none"]

\* the state main() starts from
GestureIdle ==
  /\ gesture_state = InitGestureState
  /\ mouse_state = InitMouseState
  /\ trackpad_state = InitTrackpadState
  /\ pressed_keys_and_buttons = {}
  /\ robs = NoRobs
  /\ aobs = NoAobs
  /\ quantizer = NoQuantizer

\* _ALLOW_GESTURES_BY_RIGHT_BUTTON = False
ALLOW_GESTURES_BY_RIGHT_BUTTON == FALSE

NoRec == [held_for |-> -1, out_key |-> NoKey, tap_key |-> NoKey, is_sticky |-> FALSE]

\* (0., -1)
NoPress == <<0, NoKey>>

\* The fields of Keyboard as one value, threaded through a handler's statements.
\* out collects the calls of _controller.touch the handler makes, in order; dual
\* is the key the handler called press_dual for; reset holds, for each call of
\* _release_pressed_mods the handler made, the value _has_stickies had then and
\* the number of calls of touch made before it.
KbState ==
  [pressed_mods |-> pressed_mods, shift_lock |-> shift_lock,
   pressed_keys |-> pressed_keys, last_press |-> last_press, last_mod |-> last_mod,
   pressed_count_by_mod |-> pressed_count_by_mod, has_stickies |-> has_stickies,
   timers |-> timers, listening |-> listening, out |-> <<>>, dual |-> NoKey,
   reset |-> <<>>]

Install(s) ==
  /\ pressed_mods' = s.pressed_mods
  /\ shift_lock' = s.shift_lock
  /\ pressed_keys' = s.pressed_keys
  /\ last_press' = s.last_press
  /\ last_mod' = s.last_mod
  /\ pressed_count_by_mod' = s.pressed_count_by_mod
  /\ has_stickies' = s.has_stickies
  /\ timers' = s.timers
  /\ listening' = s.listening

is_virtual(key) == key >= 256

touch_key(s, should_press, out_key) ==
  IF is_virtual(out_key) THEN s
  ELSE [s EXCEPT !.out = Append(@, [down |-> should_press, key |-> out_key])]

RECURSIVE touch_mods_from(_, _, _, _)
touch_mods_from(s, should_press, out_mods, i) ==
  IF i > Len(MODS) THEN s
  ELSE LET mod == MODS[i]
           s1 == IF (mod \in out_mods) # (mod \in s.pressed_mods)
                 THEN touch_key(s, should_press = (mod \in out_mods), mod)
                 ELSE s
       IN  touch_mods_from(s1, should_press, out_mods, i + 1)

\* A variant of touch_mods that touches only the modifiers the combo needs.
RECURSIVE touch_mods_needed_from(_, _, _, _)
touch_mods_needed_from(s, should_press, out_mods, i) ==
  IF i > Len(MODS) THEN s
  ELSE LET mod == MODS[i]
           s1 == IF mod \in out_mods /\ mod \notin s.pressed_mods
                 THEN touch_key(s, should_press, mod)
                 ELSE s
       IN  touch_mods_needed_from(s1, should_press, out_mods, i + 1)

touch_mods_needed(s, should_press, out_mods) ==
  touch_mods_needed_from(s, should_press, out_mods, 1)

touch_mods(s, should_press, out_mods) == touch_mods_from(s, should_press, out_mods, 1)

press_combo(s, out_key, out_mods) ==
  touch_mods(touch_key(touch_mods(s, TRUE, out_mods), TRUE, out_key), FALSE, out_mods)

press_key(s, in_key, out_press_key, out_tap_key, is_sticky) ==
  [touch_key(s, TRUE, out_press_key) EXCEPT
     !.pressed_keys[in_key] = [held_for |-> 0, out_key |-> out_press_key,
                               tap_key |-> out_tap_key, is_sticky |-> is_sticky]]

press_dual(s, in_key, out_press_mod, out_tap_key, is_sticky) ==
  LET s1 == [s EXCEPT !.pressed_mods = @ \cup {out_press_mod},
                      !.pressed_count_by_mod[out_press_mod] = @ + 1,
                      !.dual = in_key]
  IN  [press_key(s1, in_key, out_press_mod, out_tap_key, is_sticky) EXCEPT
         !.last_mod = in_key]

press_char(s, in_key) ==
  LET held == SHIFT \in s.pressed_mods
      in_shift == IF s.shift_lock /\ in_key \in SHIFT_LOCKED_KEYS THEN ~held ELSE held
      entry == NORMAL_LAYOUT[in_shift][in_key]
      s1 == press_combo(s, entry.out_key, IF entry.out_shift THEN {SHIFT} ELSE {})
  IN  [s1 EXCEPT !.pressed_keys[in_key] =
         [held_for |-> 0, out_key |-> entry.out_key, tap_key |-> NoKey,
          is_sticky |-> FALSE]]

\* for mod in Keyboard.pressed_mods: touch_key(False, mod), in the tuple's order
RECURSIVE release_each(_, _, _)
release_each(s, mods, i) ==
  IF i > Len(MODS) THEN s
  ELSE release_each(IF MODS[i] \in mods THEN touch_key(s, FALSE, MODS[i]) ELSE s,
                    mods, i + 1)

\* A variant of _release_pressed_mods that only drops the latch.
release_pressed_mods_kept(s) ==
  IF s.pressed_mods = {} THEN s ELSE [s EXCEPT !.has_stickies = FALSE]

release_pressed_mods(s0) ==
  LET s == [s0 EXCEPT !.reset = Append(@, <<s0.has_stickies, Len(s0.out)>>)]
  IN  IF s.pressed_mods = {} THEN s
      ELSE LET s1 == IF s.has_stickies
                     THEN touch_key(touch_key(s, TRUE, KEY_MASK), FALSE, KEY_MASK)
                     ELSE s
               s2 == release_each(s1, s.pressed_mods, 1)
           IN  [s2 EXCEPT !.pressed_mods = {},
                          !.pressed_count_by_mod = [m \in ModSet |-> 0],
                          !.has_stickies = FALSE]

stop(s) == [s EXCEPT !.listening = FALSE]

\* func(Keyboard.pressed_mods) of a table entry
invoke(s, func, in_key) ==
  IF func.kind = "press_dual"
  THEN press_dual(s, in_key, func.out, func.tap, func.is_sticky)
  ELSE press_key(s, in_key, func.out, func.tap, func.is_sticky)

\* A variant of the final test of _handle_listener_press without _has_stickies.
release_stickies_always(s, should_release_stickies) ==
  IF should_release_stickies THEN release_pressed_mods(s) ELSE s

release_stickies_after(s, should_release_stickies) ==
  IF s.has_stickies /\ should_release_stickies THEN release_pressed_mods(s) ELSE s

\* A variant of the repetition test that ignores no press.
is_ignored_never(can_repeat, is_repetition) == FALSE

\* if not can_repeat and is_repetition: return
is_ignored(can_repeat, is_repetition) == ~can_repeat /\ is_repetition

handle_listener_press(s, in_key) ==
  IF in_key = F11 THEN stop(s)
  ELSE
    LET is_repetition == s.pressed_keys[in_key] # NoRec \/ in_key = s.last_press[2]
        s1 == IF ~is_repetition THEN [s EXCEPT !.last_press = <<0, in_key>>] ELSE s
    IN  IF \/ in_key \in DOMAIN EXECUTION_LAYOUT
           \/ (in_key \in DOMAIN FUNCTION_LAYOUT /\ FN \in s1.pressed_mods)
        THEN LET entry == IF in_key \in DOMAIN EXECUTION_LAYOUT
                          THEN EXECUTION_LAYOUT[in_key]
                          ELSE FUNCTION_LAYOUT[in_key]
             IN  IF is_ignored(entry.can_repeat, is_repetition) THEN s1
                 ELSE release_stickies_after(invoke(s1, entry.func, in_key),
                                             entry.should_release_stickies)
        ELSE IF in_key \in DOMAIN NORMAL_LAYOUT[FALSE] /\ s1.pressed_mods \ {SHIFT} = {}
        THEN release_stickies_after(press_char(s1, in_key), TRUE)
        ELSE release_stickies_after(
               [touch_key(s1, TRUE, in_key) EXCEPT
                  !.pressed_keys[in_key] =
                     [held_for |-> 0, out_key |-> in_key, tap_key |-> NoKey,
                      is_sticky |-> FALSE]],
               TRUE)

RECURSIVE SumOver(_, _)
SumOver(f, S) ==
  IF S = {} THEN 0
  ELSE LET x == CHOOSE y \in S : TRUE IN f[x] + SumOver(f, S \ {x})

\* A Timer thread: key is the in_key its lambda captured, left the time left
\* until the thread runs the lambda, pc is "waiting" until the lambda's first
\* operand has been evaluated and "checked" from there to the call of
\* _release_pressed_mods; watched marks the thread obs follows.  Threads that
\* agree in all of these behave alike, so timers counts the threads of each kind.
TimerKinds ==
  [key : StickyKeys, left : 0..STICKY_DURATION, pc : {"waiting", "checked"},
   watched : BOOLEAN]

NoTimers == [tm \in TimerKinds |-> 0]

TimerCount(ts) == SumOver(ts, TimerKinds)

NewTimer(in_key) ==
  [key |-> in_key, left |-> STICKY_DURATION, pc |-> "waiting", watched |-> FALSE]

\* Timer(_STICKY_DURATION, lambda: ...).start()
start_timer(s, in_key) == [s EXCEPT !.timers[NewTimer(in_key)] = @ + 1]

\* A variant of the sticky test that looks at the duration only.
is_sticky_release_by_duration(s, in_key) ==
  LET rec == s.pressed_keys[in_key]
      d == rec.held_for
  IN  /\ rec.is_sticky
      /\ s.last_press[2] = in_key
      /\ MIN_STICKY_TRIGGER_DURATION <= d
      /\ d < MAX_STICKY_TRIGGER_DURATION

\* if (is_sticky and is_continuous and (Keyboard._has_stickies or MIN <= d < MAX))
is_sticky_release(s, in_key) ==
  LET rec == s.pressed_keys[in_key]
      d == rec.held_for
  IN  /\ rec.is_sticky
      /\ s.last_press[2] = in_key
      /\ \/ s.has_stickies
         \/ (MIN_STICKY_TRIGGER_DURATION <= d /\ d < MAX_STICKY_TRIGGER_DURATION)

\* A variant of the tap test that does not look at the duration.
is_tap_of_any_duration(rec, is_continuous) ==
  rec.tap_key # NoKey /\ is_continuous

\* if (out_tap_key != -1 and is_continuous and d < _MIN_STICKY_TRIGGER_DURATION)
is_tap(rec, is_continuous) ==
  /\ rec.tap_key # NoKey
  /\ is_continuous
  /\ rec.held_for < MIN_STICKY_TRIGGER_DURATION

\* A variant of the test of the record that takes every key for pressed.
has_record_always(s, in_key) == TRUE

\* in_key in Keyboard._pressed_keys
has_record(s, in_key) == s.pressed_keys[in_key] # NoRec

handle_listener_release(s, in_key) ==
  IF ~has_record(s, in_key) THEN s
  ELSE
    LET rec == s.pressed_keys[in_key]
        s1 == [s EXCEPT !.pressed_keys[in_key] = NoRec]
        is_continuous == s1.last_press[2] = in_key
        d == rec.held_for
        s2 == IF is_sticky_release(s, in_key)
              THEN start_timer([s1 EXCEPT !.has_stickies = TRUE], in_key)
              ELSE
                LET s3 == IF rec.out_key \in ModSet
                          THEN LET s4 == [s1 EXCEPT
                                            !.pressed_count_by_mod[rec.out_key] = @ - 1]
                               IN  IF SumOver(s4.pressed_count_by_mod, ModSet) = 0
                                   THEN release_pressed_mods(s4)
                                   ELSE s4
                          ELSE touch_key(s1, FALSE, rec.out_key)
                IN  IF is_tap(rec, is_continuous)
                    THEN touch_key(touch_key(s3, TRUE, rec.tap_key), FALSE, rec.tap_key)
                    ELSE s3
    IN  IF is_continuous THEN [s2 EXCEPT !.last_press = NoPress] ELSE s2

(***************************************************************************)
(* History, for the properties only.  obs follows one sticky latch, chosen *)
(* freely among the latches of a run, and the expiry callback it starts:   *)
(*   phase     "none"; "waiting", latched and the lambda not yet run;      *)
(*             "checked", between the lambda's test and its release;       *)
(*             "noop", the test failed; "released", the release has run    *)
(*   key       the key the lambda captured                                 *)
(*   held      pressed_mods at the latch; forgotten (empty) once another   *)
(*             key's press_dual or a race has made it meaningless          *)
(*   since     the press_dual calls between the latch and the lambda's     *)
(*             test: "none"; "same", of the latched key only; "other", the *)
(*             latest of another key; "mixed", the latest of the latched   *)
(*             key, after one of another key                               *)
(*   raced     a handler ran between the lambda's test and its release     *)
(*   at_fire   pressed_mods when _release_pressed_mods was called          *)
(*   released  the modifiers it removed from pressed_mods                  *)
(*   up_keys   the keys it synthesized a release of                        *)
(*   changed   it changed a field of Keyboard or synthesized an event      *)
(* A finished obs ("noop", "released") is dropped by the next handler or   *)
(* callback step.                                                          *)
(***************************************************************************)
NoObs ==
  [phase |-> "none", key |-> NoKey, held |-> {}, since |-> "none",
   raced |-> FALSE, at_fire |-> {}, released |-> {}, up_keys |-> {},
   changed |-> FALSE]

ObsActive == obs.phase \in {"waiting", "checked"}

SinceAfter(o, in_key) ==
  IF in_key # o.key THEN "other"
  ELSE IF o.since \in {"none", "same"} THEN "same" ELSE "mixed"

\* obs after a handler that called press_dual for key dual (NoKey: did not)
ObsAfterHandler(dual) ==
  IF obs.phase = "waiting"
  THEN IF dual = NoKey THEN obs
       ELSE [obs EXCEPT !.since = SinceAfter(obs, dual),
                        !.held = IF dual = obs.key THEN @ ELSE {}]
  ELSE IF obs.phase = "checked" THEN [obs EXCEPT !.raced = TRUE, !.held = {}]
  ELSE NoObs

Fields(s) ==
  <<s.pressed_mods, s.shift_lock, s.pressed_keys, s.last_press, s.last_mod,
    s.pressed_count_by_mod, s.has_stickies, s.listening>>

(***************************************************************************)
(* Actions of the keyboard engine.                                         *)
(***************************************************************************)
KeyboardIdle ==
  /\ listening = TRUE
  /\ pressed_mods = {}
  /\ shift_lock = FALSE
  /\ pressed_keys = [k \in PhysKeys |-> NoRec]
  /\ last_press = NoPress
  /\ last_mod = NoKey
  /\ pressed_count_by_mod = [m \in ModSet |-> 0]
  /\ has_stickies = FALSE
  /\ timers = NoTimers
  /\ obs = NoObs

KInit ==
  /\ KeyboardIdle
  /\ GestureIdle
  /\ allow_gestures_by_right_button = ALLOW_GESTURES_BY_RIGHT_BUTTON

\* One tick of time passes.
KTick ==
  /\ pressed_keys' = [k \in PhysKeys |->
                        IF pressed_keys[k] = NoRec THEN NoRec ELSE Aged(pressed_keys[k])]
  /\ timers' = [tm \in TimerKinds |->
                  IF tm.left = 0
                  THEN timers[tm] + IF STICKY_DURATION > 0
                                    THEN timers[[tm EXCEPT !.left = 1]] ELSE 0
                  ELSE IF tm.left < STICKY_DURATION
                  THEN timers[[tm EXCEPT !.left = @ + 1]] ELSE 0]
  /\ UNCHANGED <<listening, pressed_mods, shift_lock, last_press, last_mod,
                 pressed_count_by_mod, has_stickies, obs>>

Press(in_key) ==
  /\ listening
  /\ LET s == handle_listener_press(KbState, in_key)
     IN  /\ \A m \in ModSet : s.pressed_count_by_mod[m] <= MaxCount
         /\ Install(s)
         /\ obs' = ObsAfterHandler(s.dual)

\* the Timer the handler has just started becomes the one obs follows
Watch(s, in_key) ==
  [s EXCEPT !.timers[NewTimer(in_key)] = @ - 1,
            !.timers[[NewTimer(in_key) EXCEPT !.watched = TRUE]] = @ + 1]

Release(in_key) ==
  /\ listening
  /\ is_sticky_release(KbState, in_key) => TimerCount(timers) < MaxTimers
  /\ LET s == handle_listener_release(KbState, in_key)
     IN  \/ /\ Install(s)
            /\ obs' = ObsAfterHandler(NoKey)
         \/ /\ s.timers # timers
            /\ ~ObsActive
            /\ Install(Watch(s, in_key))
            /\ obs' = [NoObs EXCEPT !.phase = "waiting", !.key = in_key,
                                    !.held = s.pressed_mods]

\* A variant of the lambda without its first operand.
expiry_guard_none(s, in_key) == TRUE

\* Keyboard._last_mod == in_key, the first operand of the expiry lambda
expiry_guard(s, in_key) == s.last_mod = in_key

\* The Timer thread evaluates the lambda's first operand.
TimerCheck(tm) ==
  /\ timers[tm] > 0
  /\ tm.pc = "waiting"
  /\ tm.left = 0
  /\ timers' = IF expiry_guard(KbState, tm.key)
               THEN [timers EXCEPT ![tm] = @ - 1, ![[tm EXCEPT !.pc = "checked"]] = @ + 1]
               ELSE [timers EXCEPT ![tm] = @ - 1]
  /\ obs' = IF ~ObsActive THEN NoObs
            ELSE IF ~tm.watched THEN obs
            ELSE [obs EXCEPT !.phase = IF expiry_guard(KbState, tm.key)
                                       THEN "checked" ELSE "noop"]
  /\ UNCHANGED <<listening, pressed_mods, shift_lock, pressed_keys, last_press,
                 last_mod, pressed_count_by_mod, has_stickies>>

\* The Timer thread evaluates the second operand: Keyboard._release_pressed_mods()
TimerRelease(tm) ==
  /\ timers[tm] > 0
  /\ tm.pc = "checked"
  /\ LET s0 == [KbState EXCEPT !.timers[tm] = @ - 1]
         s == release_pressed_mods(s0)
     IN  /\ Install(s)
         /\ obs' = IF ~ObsActive THEN NoObs
                   ELSE IF ~tm.watched THEN obs
                   ELSE [obs EXCEPT
                           !.phase = "released",
                           !.at_fire = pressed_mods,
                           !.released = pressed_mods \ s.pressed_mods,
                           !.up_keys = {s.out[i].key : i \in {j \in 1..Len(s.out) :
                                                               ~s.out[j].down}},
                           !.changed = Fields(s) # Fields(s0) \/ s.out # <<>>]

KeyboardKeys == {SPACE, CAPS_LOCK, F5}

KNext ==
  \/ KTick /\ UNCHANGED gvars
  \/ \E in_key \in KeyboardKeys : Press(in_key) /\ UNCHANGED gvars
  \/ \E in_key \in KeyboardKeys : Release(in_key) /\ UNCHANGED gvars
  \/ \E tm \in TimerKinds : TimerCheck(tm) /\ UNCHANGED gvars
  \/ \E tm \in TimerKinds : TimerRelease(tm) /\ UNCHANGED gvars

KeyboardSpec == KInit /\ [][KNext]_vars

\* The key events may end: the press of F11 stops the listener, and the
\* Timer threads started before go on.
KLNext ==
  \/ KNext
  \/ Press(F11) /\ UNCHANGED gvars

\* Time passes, and a Timer thread that has been started runs its lambda when
\* its delay is over and goes on from the first operand to the second.
KeyboardLiveSpec ==
  /\ KInit
  /\ [][KLNext]_vars
  /\ WF_vars(KTick /\ UNCHANGED gvars)
  /\ WF_vars(\E tm \in TimerKinds : TimerCheck(tm) /\ UNCHANGED gvars)
  /\ WF_vars(\E tm \in TimerKinds : TimerRelease(tm) /\ UNCHANGED gvars)

(***************************************************************************)
(* Properties of the keyboard engine.                                      *)
(***************************************************************************)

C3_CallbackAtomic == ~obs.raced

\* the keys of the keyboard that are in no table and are no modifier
PassthroughKeys ==
  {k \in PhysKeys \ ({F11} \cup ModSet) :
     /\ k \notin DOMAIN EXECUTION_LAYOUT
     /\ k \notin DOMAIN FUNCTION_LAYOUT
     /\ k \notin DOMAIN NORMAL_LAYOUT[FALSE]}

\* what a release handled in the current state synthesizes
ReleaseOutput(k) == handle_listener_release(KbState, k).out

\* C4: in every step that handles the release of a key whose record is sticky,
\* the release latches (has_stickies true, pressed_mods and the held counts
\* unchanged, nothing synthesized, one Timer started) if and only if the
\* release is continuous and either has_stickies is already true or
\* MIN_STICKY_TRIGGER_DURATION <= d < MAX_STICKY_TRIGGER_DURATION; otherwise
\* it is a normal release: the held count of the record's modifier goes down
\* by one, or all counts are reset, and no Timer is started.
C4_StickyLatchCondition ==
  [][\A k \in PhysKeys :
       (pressed_keys[k].is_sticky /\ pressed_keys'[k] = NoRec) =>
         LET d == pressed_keys[k].held_for
             m == pressed_keys[k].out_key
             cond == /\ last_press[2] = k
                     /\ \/ has_stickies
                        \/ (MIN_STICKY_TRIGGER_DURATION <= d
                            /\ d < MAX_STICKY_TRIGGER_DURATION)
             latch == /\ has_stickies'
                      /\ pressed_mods' = pressed_mods
                      /\ pressed_count_by_mod' = pressed_count_by_mod
                      /\ ReleaseOutput(k) = <<>>
                      /\ TimerCount(timers') = TimerCount(timers) + 1
             normal == /\ TimerCount(timers') = TimerCount(timers)
                       /\ \/ pressed_count_by_mod' =
                               [pressed_count_by_mod EXCEPT ![m] = @ - 1]
                          \/ /\ pressed_mods' = {}
                             /\ pressed_count_by_mod' = [x \in ModSet |-> 0]
                             /\ ~has_stickies'
         IN  IF cond THEN latch ELSE normal]_vars

\* C4: a key has been released into a latch: its record is gone, its modifier
\* is still held, and its Timer is pending.
C4_Latched ==
  /\ obs.phase = "waiting"
  /\ has_stickies
  /\ pressed_keys[obs.key] = NoRec
  /\ EXECUTION_LAYOUT[obs.key].func.out \in pressed_mods
  /\ TimerCount(timers) > 0

\* what a press of k and then its release synthesize in the current state, and
\* the state they leave
PressThenRelease(k) ==
  handle_listener_release(handle_listener_press(KbState, k), k)

Passthrough(k) == <<[down |-> TRUE, key |-> k], [down |-> FALSE, key |-> k]>>

C15_SpuriousRelease ==
  \A k \in PhysKeys :
    pressed_keys[k] = NoRec => handle_listener_release(KbState, k) = KbState

\* C15: a sticky key has been released into a latch and has no record any
\* more, so that another release of it is spurious, while a Timer is pending
\* and another key is down.
C15_ReleasedKeyHasNoRecord ==
  \E k \in StickyKeys :
    /\ pressed_keys[k] = NoRec
    /\ has_stickies
    /\ last_mod = k
    /\ TimerCount(timers) > 0
    /\ \E other \in PhysKeys : pressed_keys[other] # NoRec

\* The calls of _controller.touch from the one after call number before on:
\* when masked, the press and then the release of the mask key ahead of every
\* release of a modifier; otherwise none for the mask key.
MaskPulse(out, masked, before) ==
  IF masked
  THEN \E i \in (before + 1)..(Len(out) - 1) :
         /\ out[i] = [down |-> TRUE, key |-> KEY_MASK]
         /\ out[i + 1] = [down |-> FALSE, key |-> KEY_MASK]
         /\ \A j \in (before + 1)..Len(out) :
              (~out[j].down /\ out[j].key \in ModSet) => j > i + 1
  ELSE \A j \in (before + 1)..Len(out) : out[j].key # KEY_MASK

\* what a handler or callback that called _release_pressed_mods has left
FullReset(s) ==
  s.reset # <<>> =>
    /\ s.pressed_mods = {}
    /\ \A m \in ModSet : s.pressed_count_by_mod[m] = 0
    /\ ~s.has_stickies
    /\ MaskPulse(s.out, s.reset[1][1], s.reset[1][2])

\* C17: every call of _release_pressed_mods, from the release of a modifier
\* that brings the sum of the counts to zero, from a press that releases the
\* stickies or from the expiry callback, leaves pressed_mods empty, every
\* count zero and _has_stickies False, and has synthesized the press and the
\* release of the mask key ahead of the releases of the modifiers exactly when
\* _has_stickies was True at the call.
C17_FullResetPostcondition ==
  /\ \A k \in PhysKeys :
       /\ FullReset(handle_listener_press(KbState, k))
       /\ FullReset(handle_listener_release(KbState, k))
  /\ \A tm \in TimerKinds :
       timers[tm] > 0 /\ tm.pc = "checked" => FullReset(release_pressed_mods(KbState))

\* the keys whose press takes the path of press_char in this state
CharKeys ==
  {k \in DOMAIN NORMAL_LAYOUT[FALSE] :
     /\ k \notin DOMAIN EXECUTION_LAYOUT
     /\ ~(k \in DOMAIN FUNCTION_LAYOUT /\ FN \in pressed_mods)
     /\ pressed_mods \ {SHIFT} = {}}

\* the table entry press_char looks up for key k in this state
CharEntry(k) ==
  LET held == SHIFT \in pressed_mods
  IN  NORMAL_LAYOUT[IF shift_lock /\ k \in SHIFT_LOCKED_KEYS THEN ~held ELSE held][k]

\* the calls of touch the press of key k makes before it releases the stickies
ComboOutput(k) ==
  LET s == handle_listener_press(KbState, k)
  IN  SubSeq(s.out, 1, IF s.reset = <<>> THEN Len(s.out) ELSE s.reset[1][2])

Down(key) == [down |-> TRUE, key |-> key]
Up(key) == [down |-> FALSE, key |-> key]

\* C18, as stated: the press of a character key synthesizes the press of
\* Shift when the entry needs it and it is not held, the press of the output
\* key, and the release of Shift when it was pressed for the combo, in this
\* order; a Shift that is held gets no press and no release.
C18_HeldModifiersLeftAlone ==
  \A k \in CharKeys :
    LET entry == CharEntry(k)
        engaged == entry.out_shift /\ SHIFT \notin pressed_mods
    IN  ComboOutput(k) = IF engaged
                         THEN <<Down(SHIFT), Down(entry.out_key), Up(SHIFT)>>
                         ELSE <<Down(entry.out_key)>>

\* C18, amended: the press of a character key synthesizes, in this order,
\* the press of Shift when the entry needs it and it is not held, or the
\* release of Shift when it is held and the entry does not need it; the press
\* of the output key; and the reverse of the first, the release of the Shift
\* it pressed or the press of the Shift it released.  A Shift that is held
\* and needed, or neither, gets no press and no release.
C18_ComboOrder ==
  \A k \in CharKeys :
    LET entry == CharEntry(k)
        held == SHIFT \in pressed_mods
    IN  ComboOutput(k) =
          IF entry.out_shift /\ ~held
          THEN <<Down(SHIFT), Down(entry.out_key), Up(SHIFT)>>
          ELSE IF held /\ ~entry.out_shift
          THEN <<Up(SHIFT), Down(entry.out_key), Down(SHIFT)>>
          ELSE <<Down(entry.out_key)>>

\* C18: Shift is held through a latch, so that the press of a character key
\* also releases the stickies, and the combo of one character key releases
\* and presses Shift around its key while that of another leaves it alone.
C18_ShiftReleasedForCombo ==
  /\ pressed_mods = {SHIFT}
  /\ has_stickies
  /\ \E k \in CharKeys :
       ComboOutput(k) = <<Up(SHIFT), Down(CharEntry(k).out_key), Down(SHIFT)>>
  /\ \E k \in CharKeys : ComboOutput(k) = <<Down(CharEntry(k).out_key)>>

\* the keys whose table entry is a press_dual with a tap key
TapKeys ==
  {k \in DOMAIN EXECUTION_LAYOUT :
     EXECUTION_LAYOUT[k].func.kind = "press_dual" /\ EXECUTION_LAYOUT[k].func.tap # NoKey}

\* a press of k in this state is not a repetition
FreshPress(k) == pressed_keys[k] = NoRec /\ last_press[2] # k

RECURSIVE AgedBy(_, _)
AgedBy(rec, n) == IF n = 0 THEN rec ELSE AgedBy(Aged(rec), n - 1)

\* the fields n ticks later, at the start of the next handler
TicksLater(s, n) ==
  [s EXCEPT !.out = <<>>, !.reset = <<>>, !.dual = NoKey,
            !.pressed_keys = [k \in PhysKeys |->
                                IF s.pressed_keys[k] = NoRec THEN NoRec
                                ELSE AgedBy(s.pressed_keys[k], n)]]

\* the state before the release of k, when k is pressed now and held for n
\* ticks, and when the press of j follows that of k at once
HeldFor(k, n) == TicksLater(handle_listener_press(KbState, k), n)
HeldAcross(k, j, n) ==
  TicksLater(handle_listener_press(TicksLater(handle_listener_press(KbState, k), 0), j), n)

\* the release of k in state s ends with the press and the release of tap,
\* the only ones it synthesizes; or it synthesizes none
Tapped(s, k, tap) ==
  LET out == handle_listener_release(s, k).out
      n == Len(out)
  IN  /\ n >= 2
      /\ out[n - 1] = Down(tap)
      /\ out[n] = Up(tap)
      /\ \A i \in 1..(n - 2) : out[i].key # tap
NoTap(s, k, tap) ==
  LET out == handle_listener_release(s, k).out
  IN  \A i \in 1..Len(out) : out[i].key # tap

Durations == 0..MAX_STICKY_TRIGGER_DURATION

NoModifierRecord(s) ==
  (s.reset # <<>> /\ pressed_mods # {} /\ s.pressed_mods = {}) =>
    \A k \in PhysKeys :
      s.pressed_keys[k] = NoRec \/ s.pressed_keys[k].out_key \notin ModSet

\* C20: a record stays in _pressed_keys from the press of its key to the
\* release of that key or to the next call of _release_pressed_mods that
\* releases the modifiers, whichever is first: after such a call, from a
\* press, from a release or from the expiry callback, _pressed_keys holds no
\* record whose out_key is a modifier.
C20_RecordLifetime ==
  /\ \A k \in PhysKeys :
       /\ NoModifierRecord(handle_listener_press(KbState, k))
       /\ NoModifierRecord(handle_listener_release(KbState, k))
  /\ \A tm \in TimerKinds :
       timers[tm] > 0 /\ tm.pc = "checked" =>
         NoModifierRecord(release_pressed_mods(KbState))

\* the table entry the press of k is dispatched by in this state, if any
InTable(k) ==
  k \in DOMAIN EXECUTION_LAYOUT \/ (k \in DOMAIN FUNCTION_LAYOUT /\ FN \in pressed_mods)
TableEntry(k) ==
  IF k \in DOMAIN EXECUTION_LAYOUT THEN EXECUTION_LAYOUT[k] ELSE FUNCTION_LAYOUT[k]

\* is_repetition of a press of k in this state
IsRepetition(k) == pressed_keys[k] # NoRec \/ k = last_press[2]

\* the press of k returns at `if not can_repeat and is_repetition: return`
IgnoredPress(k) == InTable(k) /\ ~TableEntry(k).can_repeat /\ IsRepetition(k)

\* should_release_stickies at the end of the press handler of k
ShouldReleaseStickies(k) ==
  IF InTable(k) THEN TableEntry(k).should_release_stickies ELSE TRUE

\* the keys whose press is dispatched in this state
DispatchedKeys == {k \in PhysKeys \ {F11} : ~IgnoredPress(k)}

\* C21: the press of a key whose dispatch has should_release_stickies True,
\* handled while _has_stickies is True, calls _release_pressed_mods once, after
\* all that the dispatch synthesizes, and returns with pressed_mods empty,
\* every count zero and _has_stickies False, the mask key pressed and released
\* ahead of the releases of the modifiers; a press whose dispatch has
\* should_release_stickies False does not call it, leaves _has_stickies as it
\* is and removes no modifier from pressed_mods.
C21_OneShotReleaseOfStickies ==
  \A k \in DispatchedKeys :
    LET s == handle_listener_press(KbState, k)
    IN  IF has_stickies /\ ShouldReleaseStickies(k)
        THEN /\ Len(s.reset) = 1
             /\ s.reset[1][1]
             /\ FullReset(s)
        ELSE /\ s.reset = <<>>
             /\ s.has_stickies = has_stickies
             /\ pressed_mods \subseteq s.pressed_mods

\* C22: the press of a key of a table whose entry has can_repeat False, when
\* the key has a record in _pressed_keys or is the key of _last_press, changes
\* no field of the keyboard (pressed_mods, the counts, _pressed_keys,
\* _last_press, _last_mod, shift_lock, _has_stickies), does not call the
\* entry's function, synthesizes nothing, starts no Timer and does not call
\* _release_pressed_mods.
C22_IgnoredRepetition ==
  \A k \in PhysKeys \ {F11} :
    IgnoredPress(k) => handle_listener_press(KbState, k) = KbState

\* C22: a key of a table whose entry has can_repeat False is down while the
\* stickies are latched and a modifier is held, so that its repeated press
\* is one that would otherwise count a modifier once more.
C22_RepetitionWhileLatched ==
  \E k \in DOMAIN EXECUTION_LAYOUT :
    /\ IgnoredPress(k)
    /\ pressed_keys[k] # NoRec
    /\ has_stickies
    /\ pressed_mods # {}

\* C23: whenever _has_stickies is True and the expiry of the latch is
\* scheduled, and no further key event arrives (the listener has stopped), the
\* Timers that have been started fire and _has_stickies becomes False and
\* pressed_mods empty.
\* a Timer is pending whose lambda finds _last_mod == in_key when it runs with
\* no key event before
ExpiryScheduled ==
  \E tm \in TimerKinds : timers[tm] > 0 /\ (tm.pc = "checked" \/ tm.key = last_mod)

C23_TimedExpiry ==
  (~listening /\ has_stickies /\ ExpiryScheduled) ~> (~has_stickies /\ pressed_mods = {})

\* C24: in every reachable state the count of every modifier in
\* _pressed_count_by_mod is at least zero.
C24_HeldCountsNonNegative ==
  \A m \in ModSet : pressed_count_by_mod[m] >= 0

\* C25: in every reachable state where no key has a record in _pressed_keys
\* and _has_stickies is False, pressed_mods is empty.
C25_NoStuckModifier ==
  ((\A k \in PhysKeys : pressed_keys[k] = NoRec) /\ ~has_stickies) => pressed_mods = {}

(***************************************************************************)
(* The gesture recognizer: _update_gesture_from_new_displacement.          *)
(* A displacement (a complex number of inches) is a pair <<x, y>> of       *)
(* length units; y grows downwards, as on the screen.                      *)
(***************************************************************************)
MaxGesture == 3
MaxDistance == 120

Abs(n) == IF n < 0 THEN 0 - n ELSE n

\* abs() of a complex number, for the displacements used here (all of them
\* along an axis or multiples of (3, 4), so that abs() is exact)
Norm(v) ==
  IF v[2] = 0 THEN Abs(v[1])
  ELSE IF v[1] = 0 THEN Abs(v[2])
  ELSE CHOOSE n \in 1..(Abs(v[1]) + Abs(v[2])) : n * n = v[1] * v[1] + v[2] * v[2]

\* speed < 3 for a displacement of length norm made in t ticks
is_slower(norm, t, inches_per_second) ==
  norm * TicksPerSecond < inches_per_second * PIXELS_PER_INCH_MOVED * t

(***************************************************************************)
(* ("E", "S", "W", "N")[int(((cmath.phase(d) + tau / 8) % tau) / (tau / 4))] *)
(* is computed in double precision.  An angle is kept here as a pair       *)
(* <<sixteenths, ulps>>: so many sixteenths of a turn plus so many units   *)
(* of 2^-53 radian, the spacing of the doubles around pi / 4.  A           *)
(* displacement <<x, y>> has integer components, for which cmath.phase     *)
(* returns the exact multiple of pi / 4 on an axis or a diagonal, and an   *)
(* angle well inside an octant otherwise, which the odd sixteenth of that  *)
(* octant stands for.  A displacement <<x, y, ulps>> is one whose          *)
(* components are doubles so close to <<x, y>> that its phase is the phase *)
(* of <<x, y>> plus that many units, -MaxUlps..MaxUlps.                    *)
(***************************************************************************)
MaxUlps == 8

Sixteenth(x, y) ==
  IF y = 0 THEN (IF x >= 0 THEN 0 ELSE 8)
  ELSE IF y > 0
  THEN (IF x > y THEN 1 ELSE IF x = y THEN 2 ELSE IF x > 0 THEN 3
        ELSE IF x = 0 THEN 4 ELSE IF 0 - x < y THEN 5
        ELSE IF 0 - x = y THEN 6 ELSE 7)
  ELSE (IF x > 0 - y THEN 0 - 1 ELSE IF x = 0 - y THEN 0 - 2 ELSE IF x > 0 THEN 0 - 3
        ELSE IF x = 0 THEN 0 - 4 ELSE IF x > y THEN 0 - 5
        ELSE IF x = y THEN 0 - 6 ELSE 0 - 7)

\* cmath.phase(d)
Phase(v) == <<Sixteenth(v[1], v[2]), IF Len(v) = 3 THEN v[3] ELSE 0>>

\* (angle + tau / 8) % tau.  The sum is exact.  Python's % adds tau to a
\* negative remainder, and the doubles around tau are 8 units apart: a sum
\* that is negative by up to 4 units gives tau itself, by 5 to 8 units the
\* double next below tau.
Reduced(angle) ==
  LET sixteenths == angle[1] + 2
      ulps == angle[2]
  IN  IF sixteenths < 0 THEN <<sixteenths + 16, ulps>>
      ELSE IF sixteenths = 0 /\ ulps < 0
      THEN <<16, IF ulps >= 0 - 4 THEN 0 ELSE 0 - 8>>
      ELSE <<sixteenths, ulps>>

\* int(direction / (tau / 4))
Quarter(direction) ==
  IF direction[1] % 4 = 0 /\ direction[2] < 0
  THEN direction[1] \div 4 - 1 ELSE direction[1] \div 4

\* the subscript 4 is out of the tuple's range: IndexError
Direction(v) ==
  LET index == Quarter(Reduced(Phase(v)))
  IN  IF index > 3 THEN "IndexError" ELSE <<"E", "S", "W", "N">>[index + 1]

LastOf(gesture) == IF Len(gesture) > 0 THEN gesture[Len(gesture)] ELSE "none"

\* A variant of the recognizer without the test of the previous movement.
update_gesture_repeating(gs, d, t) ==
  IF is_slower(Norm(d), t, MIN_SPEED_TO_UPDATE_GESTURE_INCHES_PER_SECOND)
  THEN IF Len(gs.gesture_recognized) > 0
       THEN [gs EXCEPT !.is_gesture_paused = TRUE] ELSE gs
  ELSE
    LET movement == Direction(d)
        g1 == IF gs.is_gesture_paused \/ movement # gs.pending_movement
              THEN [gs EXCEPT !.pending_movement = movement,
                              !.pending_movement_distance = 0]
              ELSE gs
        g2 == [g1 EXCEPT !.pending_movement_distance = @ + Norm(d)]
    IN  IF g2.pending_movement_distance >= MIN_MOVEMENT_DISTANCE_TO_RECOGNIZE_INCHES
        THEN [g2 EXCEPT !.gesture_recognized = Append(@, movement),
                        !.is_gesture_paused = FALSE]
        ELSE g2

\* A variant of the recognizer that pauses on every slow displacement.
update_gesture_pausing(gs, d, t) ==
  IF is_slower(Norm(d), t, MIN_SPEED_TO_UPDATE_GESTURE_INCHES_PER_SECOND)
  THEN [gs EXCEPT !.is_gesture_paused = TRUE]
  ELSE update_gesture_repeating(gs, d, t)

\* A variant of the recognizer that recognizes a movement only beyond 0.25 inch.
update_gesture_beyond(gs, d, t) ==
  IF is_slower(Norm(d), t, MIN_SPEED_TO_UPDATE_GESTURE_INCHES_PER_SECOND)
  THEN IF Len(gs.gesture_recognized) > 0
       THEN [gs EXCEPT !.is_gesture_paused = TRUE] ELSE gs
  ELSE
    LET movement == Direction(d)
        g1 == IF gs.is_gesture_paused \/ movement # gs.pending_movement
              THEN [gs EXCEPT !.pending_movement = movement,
                              !.pending_movement_distance = 0]
              ELSE gs
        g2 == [g1 EXCEPT !.pending_movement_distance = @ + Norm(d)]
    IN  IF ~g2.is_gesture_paused /\ movement = LastOf(g2.gesture_recognized) THEN g2
        ELSE IF g2.pending_movement_distance > MIN_MOVEMENT_DISTANCE_TO_RECOGNIZE_INCHES
        THEN [g2 EXCEPT !.gesture_recognized = Append(@, movement),
                        !.is_gesture_paused = FALSE]
        ELSE g2

update_gesture_from_new_displacement(gs, d, t) ==
  IF is_slower(Norm(d), t, MIN_SPEED_TO_UPDATE_GESTURE_INCHES_PER_SECOND)
  THEN IF Len(gs.gesture_recognized) > 0
       THEN [gs EXCEPT !.is_gesture_paused = TRUE] ELSE gs
  ELSE
    LET movement == Direction(d)
        g1 == IF gs.is_gesture_paused \/ movement # gs.pending_movement
              THEN [gs EXCEPT !.pending_movement = movement,
                              !.pending_movement_distance = 0]
              ELSE gs
        g2 == [g1 EXCEPT !.pending_movement_distance = @ + Norm(d)]
        prev_movement == LastOf(g2.gesture_recognized)
    IN  IF movement = "IndexError" THEN gs   \* raised before any assignment
        ELSE IF ~g2.is_gesture_paused /\ movement = prev_movement THEN g2
        ELSE IF g2.pending_movement_distance >= MIN_MOVEMENT_DISTANCE_TO_RECOGNIZE_INCHES
        THEN [g2 EXCEPT !.gesture_recognized = Append(@, movement),
                        !.is_gesture_paused = FALSE]
        ELSE g2

\* what _handle_hook_mouse_button_releasing does to gesture_state at the end
\* of a gesture made with the mouse
end_gesture_from_mouse(gs) ==
  [gs EXCEPT !.gesture_source = "none", !.gesture_recognized = NoGesture,
             !.pending_movement = "none"]

\* what _handle_hook_trackpad_finger_positions_updating does to gesture_state
\* at the end of a gesture made on the trackpad
end_gesture_from_trackpad(gs) ==
  [gs EXCEPT !.gesture_source = "none", !.gesture_recognized = NoGesture,
             !.pending_movement = "none", !.is_gesture_paused = FALSE]

(***************************************************************************)
(* The recognizer on its own: displacements are fed to it one by one, as   *)
(* the adapters feed them, and a gesture is ended as the adapters end it.  *)
(* robs is the history of the gesture:                                     *)
(*   fed, d, t      the latest step: "fast" or "slow" displacement d made  *)
(*                  in t ticks, "end", or "none"                           *)
(*   appended       the latest step recognized a movement                  *)
(*   run_dir, run_dist  direction of, and distance covered by, the current *)
(*                  run of fast displacements of one direction; a slow     *)
(*                  displacement that pauses the gesture ends the run; the *)
(*                  distance is counted up to 0.25 inch                    *)
(*   run_appends    the movements recognized during the current run of     *)
(*                  consecutive fast displacements of one direction made   *)
(*                  while the gesture is not paused                        *)
(*   pause_since_append  the gesture was paused since the latest movement  *)
(*                  was recognized                                         *)
(*   after_pause    for each recognized movement, pause_since_append when  *)
(*                  it was recognized                                      *)
(*   scenario       how far the gesture is the scenario "10 inches right   *)
(*                  in 0.1 s, 10 inches down in 0.1 s, end" from a fresh   *)
(*                  gesture: 0, 1, 2 displacements, 3 ended; -1 otherwise  *)
(*   performed      the gesture the latest end handed to                   *)
(*                  _perform_gestured_action                               *)
(***************************************************************************)
TenInches == 10 * PIXELS_PER_INCH_MOVED
TenthOfSecond == TicksPerSecond \div 10

FedDisplacements ==
  {<<27, 0>>, <<60, 0>>, <<0, 27>>, <<0, 60>>, <<0 - 60, 0>>, <<0, 0 - 60>>,
   <<TenInches, 0>>, <<0, TenInches>>}

FedIntervals == {MIN_GESTURE_UPDATE_INTERVAL_SECONDS, TenthOfSecond}

ScenarioAfter(n, d, t) ==
  IF n = 0 /\ d = <<TenInches, 0>> /\ t = TenthOfSecond THEN 1
  ELSE IF n = 1 /\ d = <<0, TenInches>> /\ t = TenthOfSecond THEN 2
  ELSE 0 - 1

UpTo(n, most) == IF n < most THEN n ELSE most

RobsAfterFeed(gs, d, t) ==
  LET fast == ~is_slower(Norm(d), t, MIN_SPEED_TO_UPDATE_GESTURE_INCHES_PER_SECOND)
      dir == Direction(d)
      after == update_gesture_from_new_displacement(gs, d, t)
      appended == IF Len(after.gesture_recognized) > Len(gs.gesture_recognized)
                  THEN 1 ELSE 0
      steady == ~gs.is_gesture_paused /\ ~after.is_gesture_paused
      pausing == ~fast /\ Len(gs.gesture_recognized) > 0
  IN  [fed |-> IF fast THEN "fast" ELSE "slow",
       d |-> d,
       t |-> t,
       appended |-> appended = 1,
       run_dir |-> IF fast THEN dir ELSE IF pausing THEN "none" ELSE robs.run_dir,
       run_dist |-> IF fast
                    THEN UpTo((IF dir = robs.run_dir THEN robs.run_dist ELSE 0) + Norm(d),
                              MIN_MOVEMENT_DISTANCE_TO_RECOGNIZE_INCHES)
                    ELSE IF pausing THEN 0 ELSE robs.run_dist,
       run_appends |-> IF fast /\ steady /\ robs.fed = "fast" /\ dir = robs.run_dir
                       THEN robs.run_appends + appended
                       ELSE appended,
       pause_since_append |-> IF appended = 1 THEN FALSE
                              ELSE robs.pause_since_append \/ after.is_gesture_paused,
       after_pause |-> IF appended = 1
                       THEN Append(robs.after_pause,
                                   robs.pause_since_append \/ gs.is_gesture_paused)
                       ELSE robs.after_pause,
       scenario |-> ScenarioAfter(robs.scenario, d, t),
       performed |-> NoGesture]

RobsAfterEnd(gs) ==
  [NoRobs EXCEPT !.fed = "end",
                 !.scenario = IF robs.scenario = 2 THEN 3 ELSE 0,
                 !.performed = gs.gesture_recognized]

\* The module constant is chosen at the start: False as the sources have it,
\* or True, the build in which the right button makes gestures.
RInit ==
  /\ KeyboardIdle
  /\ GestureIdle
  /\ allow_gestures_by_right_button \in BOOLEAN

\* A gesture is followed up to MaxGesture movements, and a pending movement
\* over several displacements up to MaxDistance.
WithinBounds(gs, d) ==
  /\ Len(gs.gesture_recognized) <= MaxGesture
  /\ \/ gs.pending_movement_distance <= MaxDistance
     \/ gs.pending_movement_distance = Norm(d)

Feed(d, t) ==
  /\ WithinBounds(update_gesture_from_new_displacement(gesture_state, d, t), d)
  /\ gesture_state' = update_gesture_from_new_displacement(gesture_state, d, t)
  /\ robs' = RobsAfterFeed(gesture_state, d, t)
  /\ UNCHANGED <<mouse_state, trackpad_state, pressed_keys_and_buttons,
                 allow_gestures_by_right_button, aobs, quantizer>>

\* the gesture ends as a gesture made on the trackpad ends
EndFromTrackpad ==
  /\ robs.fed \in {"fast", "slow"}
  /\ gesture_state' = end_gesture_from_trackpad(gesture_state)
  /\ robs' = RobsAfterEnd(gesture_state)
  /\ UNCHANGED <<mouse_state, trackpad_state, pressed_keys_and_buttons,
                 allow_gestures_by_right_button, aobs, quantizer>>

\* the gesture ends as a gesture made with the mouse ends
EndFromMouse ==
  /\ allow_gestures_by_right_button
  /\ robs.fed \in {"fast", "slow"}
  /\ gesture_state' = end_gesture_from_mouse(gesture_state)
  /\ robs' = RobsAfterEnd(gesture_state)
  /\ UNCHANGED <<mouse_state, trackpad_state, pressed_keys_and_buttons,
                 allow_gestures_by_right_button, aobs, quantizer>>

RNext ==
  \/ \E d \in FedDisplacements, t \in FedIntervals : Feed(d, t) /\ UNCHANGED kvars
  \/ EndFromTrackpad /\ UNCHANGED kvars
  \/ EndFromMouse /\ UNCHANGED kvars

RecognizerSpec == RInit /\ [][RNext]_vars

(***************************************************************************)
(* Properties of the gesture recognizer.                                   *)
(***************************************************************************)

\* C6: while the gesture is not paused, consecutive fast displacements of one
\* direction have that direction recognized at most once, however many they
\* are; and wherever two equal movements are adjacent in gesture_recognized,
\* the gesture was paused between the recognition of the first and that of
\* the second.
C6_DuplicateSuppression ==
  /\ robs.run_appends <= 1
  /\ \A i \in 1..(Len(gesture_state.gesture_recognized) - 1) :
       gesture_state.gesture_recognized[i] = gesture_state.gesture_recognized[i + 1]
         => robs.after_pause[i + 1]

\* C6: a fast displacement has continued, without a pause, a run in which its
\* direction had been recognized, and has added nothing; the gesture holds two
\* adjacent equal movements.
C6_RunContinued ==
  /\ robs.fed = "fast"
  /\ ~robs.appended
  /\ robs.run_appends = 1
  /\ ~gesture_state.is_gesture_paused
  /\ \E i \in 1..(Len(gesture_state.gesture_recognized) - 1) :
       gesture_state.gesture_recognized[i] = gesture_state.gesture_recognized[i + 1]

\* C7: in every state of a gesture, a displacement slower than 3 inches per
\* second adds nothing to gesture_recognized and leaves pending_movement and
\* pending_movement_distance as they are; is_gesture_paused becomes true when
\* gesture_recognized is not empty and keeps its value when it is empty.
C7_LowSpeedSamples ==
  \A d \in FedDisplacements, t \in FedIntervals :
    is_slower(Norm(d), t, MIN_SPEED_TO_UPDATE_GESTURE_INCHES_PER_SECOND) =>
      LET after == update_gesture_from_new_displacement(gesture_state, d, t)
      IN  /\ after.gesture_recognized = gesture_state.gesture_recognized
          /\ after.pending_movement = gesture_state.pending_movement
          /\ after.pending_movement_distance = gesture_state.pending_movement_distance
          /\ after.gesture_source = gesture_state.gesture_source
          /\ after.is_gesture_paused =
               IF Len(gesture_state.gesture_recognized) > 0
               THEN TRUE ELSE gesture_state.is_gesture_paused

\* C7: a slow displacement has paused a gesture whose pending movement had
\* covered some distance.
C7_Paused ==
  /\ robs.fed = "slow"
  /\ gesture_state.is_gesture_paused
  /\ Len(gesture_state.gesture_recognized) > 0
  /\ gesture_state.pending_movement_distance > 0

\* C8: when a fast displacement whose direction is not the latest recognized
\* movement is fed to a gesture that is not paused, its direction is
\* recognized if the current run of fast displacements of that direction has
\* covered 0.25 inch, and nothing is recognized if it has not; and a fresh
\* gesture fed 10 inches right in 0.1 s and then 10 inches down in 0.1 s has
\* recognized [E, S], which is what its end hands to _perform_gestured_action.
C8_TokenAppend ==
  /\ [][(/\ robs'.fed = "fast"
         /\ ~gesture_state.is_gesture_paused
         /\ Direction(robs'.d) # LastOf(gesture_state.gesture_recognized))
        => gesture_state'.gesture_recognized =
             IF robs'.run_dist >= MIN_MOVEMENT_DISTANCE_TO_RECOGNIZE_INCHES
             THEN Append(gesture_state.gesture_recognized, Direction(robs'.d))
             ELSE gesture_state.gesture_recognized]_vars
  /\ [](robs.scenario = 2 => gesture_state.gesture_recognized = <<"E", "S">>)
  /\ [](robs.scenario = 3 => robs.performed = <<"E", "S">>)

\* C8: the scenario has been fed and ended.
C8_ScenarioEnded == robs.scenario = 3 /\ robs.performed = <<"E", "S">>

(***************************************************************************)
(* The quantization of a displacement on its own: a displacement is        *)
(* chosen, with integer components up to MaxComponent, or next to the      *)
(* diagonal between East and North by some units of angle, and its         *)
(* movement is computed.                                                   *)
(***************************************************************************)
MaxComponent == 5

Components == (0 - MaxComponent)..MaxComponent

QuantizerInputs ==
  {<<x, y>> : x \in Components, y \in Components}
    \cup {<<x, 0 - x, ulps>> : x \in 1..MaxComponent,
                               ulps \in ((0 - MaxUlps)..MaxUlps) \ {0}}

QInit ==
  /\ KeyboardIdle
  /\ GestureIdle
  /\ allow_gestures_by_right_button = ALLOW_GESTURES_BY_RIGHT_BUTTON

Quantize(d) ==
  /\ quantizer' = [d |-> d, movement |-> Direction(d)]
  /\ UNCHANGED <<gesture_state, mouse_state, trackpad_state, pressed_keys_and_buttons,
                 allow_gestures_by_right_button, robs, aobs>>

QNext == \E d \in QuantizerInputs : Quantize(d) /\ UNCHANGED kvars

QuantizerSpec == QInit /\ [][QNext]_vars

\* the sector of a displacement: its angle, turned by an eighth of a turn and
\* reduced to one turn, in quarters of a turn rounded down
SectorOf(v) ==
  LET angle == Phase(v)
      turned == (angle[1] + 2 + 16) % 16
      quarter == IF turned % 4 = 0 /\ angle[2] < 0
                 THEN (turned \div 4 + 3) % 4 ELSE turned \div 4
  IN  <<"E", "S", "W", "N">>[quarter + 1]

\* C16: the movement computed for a displacement is the quarter of a turn, in
\* the order East, South, West, North, that its angle is in after a turn by
\* 45 degrees, a displacement on a diagonal belonging to the quarter it
\* enters; (5, 0) is East, (0, 5) South, (-5, 0) West and (0, -5) North.
C16_DirectionQuantization ==
  /\ quantizer.movement # "none" => quantizer.movement = SectorOf(quantizer.d)
  /\ Direction(<<5, 0>>) = "E" /\ Direction(<<0, 5>>) = "S"
  /\ Direction(<<0 - 5, 0>>) = "W" /\ Direction(<<0, 0 - 5>>) = "N"

(***************************************************************************)
(* The adapters: the handlers of the mouse and trackpad hooks.  A handler  *)
(* is a function of the records main() hands it, taken together as one     *)
(* value w, which also collects what the handler does beside changing      *)
(* them: performed, the gesture handed to _perform_gestured_action;        *)
(* emulated, the button events emulated through the hook, in order;        *)
(* suppress, the value returned; fed, the samples <<displacement,          *)
(* interval>> handed to _update_gesture_from_new_displacement.             *)
(***************************************************************************)
World ==
  [gesture_state |-> gesture_state, mouse_state |-> mouse_state,
   trackpad_state |-> trackpad_state,
   pressed_keys_and_buttons |-> pressed_keys_and_buttons,
   allow |-> allow_gestures_by_right_button,
   performed |-> NoGesture, emulated |-> <<>>, suppress |-> FALSE, fed |-> <<>>]

InstallWorld(w) ==
  /\ gesture_state' = w.gesture_state
  /\ mouse_state' = w.mouse_state
  /\ trackpad_state' = w.trackpad_state
  /\ pressed_keys_and_buttons' = w.pressed_keys_and_buttons
  /\ allow_gestures_by_right_button' = w.allow

\* A variant of the press handler that does not look at gesture_source.
handle_hook_mouse_button_pressing_any(w, button, click_level, cursor) ==
  IF button = "right_button" /\ click_level = 1 /\ w.allow
  THEN [w EXCEPT !.mouse_state.is_making_gesture = TRUE,
                 !.mouse_state.recorded_position = cursor,
                 !.mouse_state.recorded_ago = 0,
                 !.gesture_state.gesture_source = "mouse",
                 !.suppress = TRUE]
  ELSE [w EXCEPT !.pressed_keys_and_buttons = @ \cup {button}]

\* cursor is what hook.get_cursor_position() returns
handle_hook_mouse_button_pressing(w, button, click_level, cursor) ==
  IF /\ button = "right_button" /\ click_level = 1
     /\ w.allow /\ w.gesture_state.gesture_source = "none"
  THEN [w EXCEPT !.mouse_state.is_making_gesture = TRUE,
                 !.mouse_state.recorded_position = cursor,
                 !.mouse_state.recorded_ago = 0,
                 !.gesture_state.gesture_source = "mouse",
                 !.suppress = TRUE]
  ELSE [w EXCEPT !.pressed_keys_and_buttons = @ \cup {button}]

\* hook.emulate_mouse_button_press(hook_state, "right_button") and then
\* hook.emulate_mouse_button_release(hook_state, "right_button")
EmulatedClick ==
  <<[down |-> TRUE, button |-> "right_button"],
    [down |-> FALSE, button |-> "right_button"]>>

\* A variant of the release handler that never emulates a click.
handle_hook_mouse_button_releasing_silent(w, button, click_level) ==
  IF w.allow /\ button = "right_button" /\ click_level = 1
  THEN LET w1 == IF w.mouse_state.is_making_gesture
                 THEN [w EXCEPT !.performed = w.gesture_state.gesture_recognized,
                                !.mouse_state.is_making_gesture = FALSE,
                                !.gesture_state = end_gesture_from_mouse(@)]
                 ELSE w
       IN  [w1 EXCEPT !.suppress = TRUE]
  ELSE [w EXCEPT !.pressed_keys_and_buttons = @ \ {button}]

handle_hook_mouse_button_releasing(w, button, click_level) ==
  IF w.allow /\ button = "right_button" /\ click_level = 1
  THEN LET did_make_gesture == /\ w.mouse_state.is_making_gesture
                               /\ Len(w.gesture_state.gesture_recognized) > 0
           w1 == IF w.mouse_state.is_making_gesture
                 THEN [w EXCEPT !.performed = w.gesture_state.gesture_recognized,
                                !.mouse_state.is_making_gesture = FALSE,
                                !.gesture_state = end_gesture_from_mouse(@)]
                 ELSE w
       IN  [w1 EXCEPT !.emulated = IF did_make_gesture THEN <<>> ELSE EmulatedClick,
                      !.suppress = TRUE]
  ELSE [w EXCEPT !.pressed_keys_and_buttons = @ \ {button}]

Minus(a, b) == <<a[1] - b[1], a[2] - b[2]>>

update_gesture_from_mouse(w, new_cursor_position) ==
  LET interval == w.mouse_state.recorded_ago
  IN  IF interval < MIN_GESTURE_UPDATE_INTERVAL_SECONDS THEN w
      ELSE LET prev_pos == w.mouse_state.recorded_position
               displacement_pixels == Minus(new_cursor_position, prev_pos)
           IN  [w EXCEPT !.mouse_state.recorded_position = new_cursor_position,
                         !.mouse_state.recorded_ago = 0,
                         !.gesture_state =
                            update_gesture_from_new_displacement(
                              @, displacement_pixels, interval),
                         !.fed = Append(@, <<displacement_pixels, interval>>)]

handle_hook_mouse_cursor_moving(w, new_pos) ==
  IF w.mouse_state.is_making_gesture THEN update_gesture_from_mouse(w, new_pos) ELSE w

RECURSIVE SumOfDisplacements(_, _, _)
SumOfDisplacements(curr_pos, prev_pos, fingers) ==
  IF fingers = {} THEN <<0, 0>>
  ELSE LET i == CHOOSE j \in fingers : TRUE
           rest == SumOfDisplacements(curr_pos, prev_pos, fingers \ {i})
           d == Minus(curr_pos[i], prev_pos[i])
       IN  <<rest[1] + d[1], rest[2] + d[2]>>

\* sum / n, for the sums used here (all fingers move alike, so it is exact)
DividedBy(sum, n) == <<sum[1] \div n, sum[2] \div n>>

\* A variant of the update that starts a gesture whatever the fingers' speed.
update_gesture_from_trackpad_present(w) ==
  LET ts == w.trackpad_state
      interval == ts.prev_recorded_ago
  IN  IF interval < MIN_GESTURE_UPDATE_INTERVAL_SECONDS THEN w
      ELSE
        LET prev_pos == ts.prev_recorded_finger_positions
            curr_pos == ts.curr_recorded_finger_positions
            w1 == [w EXCEPT !.trackpad_state.prev_recorded_ago = 0,
                            !.trackpad_state.prev_recorded_finger_positions = curr_pos]
            fingers == DOMAIN curr_pos \cap DOMAIN prev_pos
        IN  IF /\ ~ts.is_making_gesture
               /\ Cardinality(fingers) < MIN_FINGERS_TO_START_GESTURE_FROM_TRACKPAD
            THEN w1
            ELSE
              LET w2 == IF ~ts.is_making_gesture
                        THEN [w1 EXCEPT !.trackpad_state.is_making_gesture = TRUE,
                                        !.trackpad_state.fingers_making_gesture = fingers]
                        ELSE w1
                  moved == w2.trackpad_state.fingers_making_gesture
                             \cap DOMAIN curr_pos \cap DOMAIN prev_pos
                  fingers_moved == Cardinality(moved)
                  mean_displacement ==
                    DividedBy(SumOfDisplacements(curr_pos, prev_pos, moved),
                              fingers_moved)
              IN  IF fingers_moved = 0 THEN w2
                  ELSE [w2 EXCEPT !.gesture_state =
                                     update_gesture_from_new_displacement(
                                       @, mean_displacement, interval),
                                  !.fed = Append(@, <<mean_displacement, interval>>)]

\* A variant of the update that takes the mean over all the fingers on the pad.
update_gesture_from_trackpad_all(w) ==
  LET ts == w.trackpad_state
      interval == ts.prev_recorded_ago
  IN  IF interval < MIN_GESTURE_UPDATE_INTERVAL_SECONDS THEN w
      ELSE
        LET prev_pos == ts.prev_recorded_finger_positions
            curr_pos == ts.curr_recorded_finger_positions
            w1 == [w EXCEPT !.trackpad_state.prev_recorded_ago = 0,
                            !.trackpad_state.prev_recorded_finger_positions = curr_pos]
            fingers == {i \in DOMAIN curr_pos \cap DOMAIN prev_pos :
                          ~is_slower(Norm(Minus(curr_pos[i], prev_pos[i])), interval,
                                     MIN_FINGER_SPEED_TO_START_GESTURE_INCHES_PER_SECOND)}
        IN  IF /\ ~ts.is_making_gesture
               /\ Cardinality(fingers) < MIN_FINGERS_TO_START_GESTURE_FROM_TRACKPAD
            THEN w1
            ELSE
              LET w2 == IF ~ts.is_making_gesture
                        THEN [w1 EXCEPT !.trackpad_state.is_making_gesture = TRUE,
                                        !.trackpad_state.fingers_making_gesture = fingers]
                        ELSE w1
                  moved == DOMAIN curr_pos \cap DOMAIN prev_pos
                  fingers_moved == Cardinality(moved)
                  mean_displacement ==
                    DividedBy(SumOfDisplacements(curr_pos, prev_pos, moved),
                              fingers_moved)
              IN  IF fingers_moved = 0 THEN w2
                  ELSE [w2 EXCEPT !.gesture_state =
                                     update_gesture_from_new_displacement(
                                       @, mean_displacement, interval),
                                  !.fed = Append(@, <<mean_displacement, interval>>)]

update_gesture_from_trackpad(w) ==
  LET ts == w.trackpad_state
      interval == ts.prev_recorded_ago
  IN  IF interval < MIN_GESTURE_UPDATE_INTERVAL_SECONDS THEN w
      ELSE
        LET prev_pos == ts.prev_recorded_finger_positions
            curr_pos == ts.curr_recorded_finger_positions
            w1 == [w EXCEPT !.trackpad_state.prev_recorded_ago = 0,
                            !.trackpad_state.prev_recorded_finger_positions = curr_pos]
            fingers == {i \in DOMAIN curr_pos \cap DOMAIN prev_pos :
                          ~is_slower(Norm(Minus(curr_pos[i], prev_pos[i])), interval,
                                     MIN_FINGER_SPEED_TO_START_GESTURE_INCHES_PER_SECOND)}
        IN  IF /\ ~ts.is_making_gesture
               /\ Cardinality(fingers) < MIN_FINGERS_TO_START_GESTURE_FROM_TRACKPAD
            THEN w1
            ELSE
              LET w2 == IF ~ts.is_making_gesture
                        THEN [w1 EXCEPT !.trackpad_state.is_making_gesture = TRUE,
                                        !.trackpad_state.fingers_making_gesture = fingers]
                        ELSE w1
                  moved == w2.trackpad_state.fingers_making_gesture
                             \cap DOMAIN curr_pos \cap DOMAIN prev_pos
                  fingers_moved == Cardinality(moved)
                  mean_displacement ==
                    DividedBy(SumOfDisplacements(curr_pos, prev_pos, moved),
                              fingers_moved)
              IN  IF fingers_moved = 0 THEN w2
                  ELSE [w2 EXCEPT !.gesture_state =
                                     update_gesture_from_new_displacement(
                                       @, mean_displacement, interval),
                                  !.fed = Append(@, <<mean_displacement, interval>>)]

\* A variant of the start of a trackpad gesture that does not look at
\* gesture_source.
start_gesture_from_trackpad_any(w, new_finger_positions) ==
  IF w.trackpad_state.is_making_gesture THEN w
  ELSE IF Cardinality(DOMAIN new_finger_positions)
            >= MIN_FINGERS_TO_START_GESTURE_FROM_TRACKPAD
  THEN LET w1 == update_gesture_from_trackpad(w)
       IN  IF w1.trackpad_state.is_making_gesture
           THEN [w1 EXCEPT !.gesture_state.gesture_source = "trackpad"]
           ELSE w1
  ELSE w

\* the handler from "if gesture_state.gesture_source is not None" on
start_gesture_from_trackpad(w, new_finger_positions) ==
  IF w.gesture_state.gesture_source # "none" THEN w
  ELSE IF Cardinality(DOMAIN new_finger_positions)
            >= MIN_FINGERS_TO_START_GESTURE_FROM_TRACKPAD
  THEN LET w1 == update_gesture_from_trackpad(w)
       IN  IF w1.trackpad_state.is_making_gesture
           THEN [w1 EXCEPT !.gesture_state.gesture_source = "trackpad"]
           ELSE w1
  ELSE w

handle_hook_trackpad_finger_positions_updating(w0, new_finger_positions) ==
  LET w == [w0 EXCEPT !.trackpad_state.curr_recorded_finger_positions =
                         new_finger_positions]
  IN  IF w.trackpad_state.is_making_gesture
      THEN LET should_end_gesture ==
                 \A i \in w.trackpad_state.fingers_making_gesture :
                    i \notin DOMAIN new_finger_positions
           IN  IF should_end_gesture
               THEN [w EXCEPT !.performed = w.gesture_state.gesture_recognized,
                              !.trackpad_state.is_making_gesture = FALSE,
                              !.gesture_state = end_gesture_from_trackpad(@)]
               ELSE start_gesture_from_trackpad(update_gesture_from_trackpad(w),
                                                new_finger_positions)
      ELSE start_gesture_from_trackpad(w, new_finger_positions)

(***************************************************************************)
(* The events the hooks deliver.  The cursor is at a corner of a 60 by 80  *)
(* pixel rectangle; the fingers on the trackpad are none, fingers 1 to 4   *)
(* or fingers 1 to 3, each at its own place, moved together to a corner of *)
(* such a rectangle.  Between two events time stands still or one minimum  *)
(* update interval passes.  aobs is the history of the latest event:       *)
(*   ended      "mouse" or "trackpad" when the event ended a gesture made  *)
(*              with it, else "none"                                       *)
(*   performed  the gesture the event handed to _perform_gestured_action   *)
(*   attempt    "press" when the event was a press of the right button at  *)
(*              click level 1 while the right button makes gestures,       *)
(*              "fingers" when it was an update, made while the trackpad   *)
(*              was not making a gesture and a minimum update interval     *)
(*              after the previous positions were recorded, in which 4 or  *)
(*              more fingers were fast; else "none"                        *)
(*   suppress   the value the handler returned                             *)
(*   emulated   the button events the handler emulated                     *)
(***************************************************************************)
MaxAdapterGesture == 1

Corners == {<<0, 0>>, <<60, 0>>, <<0, 80>>, <<60, 80>>}

Buttons == {"left_button", "right_button"}

ClickLevels == {1, 2}

FingerPlace(i) == <<1000 * i, 0>>

FingerSets == {{}, 1..4, 1..3}

FingerPositions(fingers, corner) ==
  [i \in fingers |-> <<FingerPlace(i)[1] + corner[1], FingerPlace(i)[2] + corner[2]>>]

\* the fingers of an update that are in the previous positions too and have
\* moved from there at 3 inches per second or more
QualifyingFingers(new_finger_positions) ==
  LET prev_pos == trackpad_state.prev_recorded_finger_positions
  IN  {i \in DOMAIN new_finger_positions \cap DOMAIN prev_pos :
         ~is_slower(Norm(Minus(new_finger_positions[i], prev_pos[i])),
                    trackpad_state.prev_recorded_ago,
                    MIN_FINGER_SPEED_TO_START_GESTURE_INCHES_PER_SECOND)}

Throttled == trackpad_state.prev_recorded_ago < MIN_GESTURE_UPDATE_INTERVAL_SECONDS

PressAttempt(button, click_level) ==
  IF button = "right_button" /\ click_level = 1 /\ allow_gestures_by_right_button
  THEN "press" ELSE "none"

FingersAttempt(new_finger_positions) ==
  IF /\ ~trackpad_state.is_making_gesture
     /\ ~Throttled
     /\ Cardinality(QualifyingFingers(new_finger_positions))
          >= MIN_FINGERS_TO_START_GESTURE_FROM_TRACKPAD
  THEN "fingers" ELSE "none"

AobsAfter(w, attempt) ==
  [ended |-> IF mouse_state.is_making_gesture /\ ~w.mouse_state.is_making_gesture
             THEN "mouse"
             ELSE IF /\ trackpad_state.is_making_gesture
                     /\ ~w.trackpad_state.is_making_gesture
             THEN "trackpad" ELSE "none",
   performed |-> w.performed,
   attempt |-> attempt,
   suppress |-> w.suppress,
   emulated |-> w.emulated]

\* the module constant is chosen at the start, as in RInit
AInit ==
  /\ KeyboardIdle
  /\ GestureIdle
  /\ allow_gestures_by_right_button \in BOOLEAN

Later(ago) ==
  IF ago + MIN_GESTURE_UPDATE_INTERVAL_SECONDS < LongAgo
  THEN ago + MIN_GESTURE_UPDATE_INTERVAL_SECONDS ELSE LongAgo

\* One minimum update interval passes.
ATick ==
  /\ mouse_state' = [mouse_state EXCEPT
                       !.recorded_ago = IF mouse_state.is_making_gesture
                                        THEN Later(@) ELSE @]
  /\ trackpad_state' = [trackpad_state EXCEPT !.prev_recorded_ago = Later(@)]
  /\ aobs' = NoAobs
  /\ UNCHANGED <<gesture_state, pressed_keys_and_buttons,
                 allow_gestures_by_right_button, robs, quantizer>>

\* A field the code writes before it reads it again is not kept from one
\* event to the next: curr_recorded_finger_positions, which the trackpad
\* handler sets first of all; and, while no gesture is being made with them,
\* the mouse's recorded position and time and the trackpad's
\* fingers_making_gesture, which the start of a gesture sets.
Forget(w) ==
  [w EXCEPT
     !.trackpad_state.curr_recorded_finger_positions = <<>>,
     !.trackpad_state.fingers_making_gesture =
        IF w.trackpad_state.is_making_gesture THEN @ ELSE {},
     !.mouse_state.recorded_position =
        IF w.mouse_state.is_making_gesture THEN @ ELSE <<0, 0>>,
     !.mouse_state.recorded_ago =
        IF w.mouse_state.is_making_gesture THEN @ ELSE LongAgo]

\* The adapters' gestures are followed up to MaxAdapterGesture movements.
AStep(w, attempt) ==
  /\ Len(w.gesture_state.gesture_recognized) <= MaxAdapterGesture
  /\ w.gesture_state.pending_movement_distance <= MaxDistance
  /\ InstallWorld(Forget(w))
  /\ aobs' = AobsAfter(w, attempt)
  /\ UNCHANGED <<robs, quantizer>>

MouseButtonPressing(button, click_level, cursor) ==
  AStep(handle_hook_mouse_button_pressing(World, button, click_level, cursor),
        PressAttempt(button, click_level))

MouseButtonReleasing(button, click_level) ==
  AStep(handle_hook_mouse_button_releasing(World, button, click_level), "none")

MouseCursorMoving(new_pos) ==
  AStep(handle_hook_mouse_cursor_moving(World, new_pos), "none")

TrackpadFingerPositionsUpdating(new_finger_positions) ==
  AStep(handle_hook_trackpad_finger_positions_updating(World, new_finger_positions),
        FingersAttempt(new_finger_positions))

ANext ==
  \/ ATick /\ UNCHANGED kvars
  \/ \E button \in Buttons, click_level \in ClickLevels, cursor \in Corners :
       MouseButtonPressing(button, click_level, cursor) /\ UNCHANGED kvars
  \/ \E button \in Buttons, click_level \in ClickLevels :
       MouseButtonReleasing(button, click_level) /\ UNCHANGED kvars
  \/ \E new_pos \in Corners : MouseCursorMoving(new_pos) /\ UNCHANGED kvars
  \/ \E fingers \in FingerSets, corner \in Corners :
       TrackpadFingerPositionsUpdating(FingerPositions(fingers, corner))
         /\ UNCHANGED kvars

AdapterSpec == AInit /\ [][ANext]_vars

(***************************************************************************)
(* Properties of the adapters.                                             *)
(***************************************************************************)

\* C9: after every event that ends a gesture, made with the mouse or on the
\* trackpad, gesture_state is as main() built it: source None, nothing
\* recognized, no pending movement, pending distance 0, not paused.
C9_SessionEndResets == aobs.ended # "none" => gesture_state = InitGestureState

C11_SecondSessionRefused ==
  [][(gesture_state.gesture_source # "none" /\ aobs'.attempt # "none") =>
       /\ gesture_state'.gesture_source = gesture_state.gesture_source
       /\ gesture_state'.gesture_recognized = gesture_state.gesture_recognized
       /\ mouse_state'.is_making_gesture = mouse_state.is_making_gesture
       /\ trackpad_state'.is_making_gesture = trackpad_state.is_making_gesture]_vars

\* C11: four fast fingers have just been refused while the mouse is making a
\* gesture that has recognized a movement.
C11_FingersRefused ==
  /\ aobs.attempt = "fingers"
  /\ gesture_state.gesture_source = "mouse"
  /\ mouse_state.is_making_gesture
  /\ ~trackpad_state.is_making_gesture
  /\ Len(gesture_state.gesture_recognized) > 0

\* C14: while the right button makes gestures, a press of the right button
\* at click level 1 that begins a gesture is suppressed and performs and
\* emulates nothing; its release is suppressed too and ends the gesture; when
\* no movement was recognized the release performs no gesture and emulates
\* one press and then one release of the right button, and when a movement
\* was recognized it performs the gesture and emulates nothing.
C14_UngesturedClick ==
  allow_gestures_by_right_button =>
    /\ gesture_state.gesture_source = "none" =>
         \A cursor \in Corners :
           LET w == handle_hook_mouse_button_pressing(World, "right_button", 1, cursor)
           IN  /\ w.mouse_state.is_making_gesture
               /\ w.gesture_state.gesture_source = "mouse"
               /\ w.suppress
               /\ w.performed = NoGesture
               /\ w.emulated = <<>>
    /\ mouse_state.is_making_gesture =>
         LET w == handle_hook_mouse_button_releasing(World, "right_button", 1)
         IN  /\ w.suppress
             /\ ~w.mouse_state.is_making_gesture
             /\ w.gesture_state.gesture_source = "none"
             /\ IF Len(gesture_state.gesture_recognized) = 0
                THEN w.performed = NoGesture /\ w.emulated = EmulatedClick
                ELSE /\ w.performed = gesture_state.gesture_recognized
                     /\ w.emulated = <<>>

\* C14: a release of the right button has just ended a gesture in which
\* nothing was recognized: it was suppressed and emulated a click.
C14_ClickEmulated ==
  /\ aobs.ended = "mouse"
  /\ aobs.performed = NoGesture
  /\ aobs.emulated = EmulatedClick
  /\ aobs.suppress
  /\ gesture_state.gesture_source = "none"

\* the fields at the start of the next handler
NextEvent(w) ==
  [w EXCEPT !.performed = NoGesture, !.emulated = <<>>, !.suppress = FALSE, !.fed = <<>>]

\* the presses of the right button that reach the applications when the press
\* handler has returned p and the release handler r: the pressed one unless
\* suppressed, and the emulated ones
PressesDelivered(p, r) ==
  (IF p.suppress THEN 0 ELSE 1)
    + Cardinality({i \in 1..Len(r.emulated) : r.emulated[i].down})

\* the right button is up: no press of it is waiting for its release
RightButtonUp ==
  /\ ~mouse_state.is_making_gesture
  /\ "right_button" \notin pressed_keys_and_buttons

Rows == {0, 80}

OffPad == 0 - 1

Hand(r123, r4, r5) ==
  LET row == [i \in 1..5 |-> IF i <= 3 THEN r123 ELSE IF i = 4 THEN r4 ELSE r5]
  IN  [i \in {j \in 1..5 : row[j] # OffPad} |-> <<FingerPlace(i)[1], row[i]>>]

Hands == {Hand(r123, r4, r5) : r123 \in Rows \cup {OffPad},
                               r4 \in Rows \cup {OffPad},
                               r5 \in Rows \cup {OffPad}}

TInit ==
  /\ KeyboardIdle
  /\ GestureIdle
  /\ allow_gestures_by_right_button = ALLOW_GESTURES_BY_RIGHT_BUTTON

TNext ==
  \/ ATick /\ UNCHANGED kvars
  \/ \E new_finger_positions \in Hands :
       TrackpadFingerPositionsUpdating(new_finger_positions) /\ UNCHANGED kvars

TrackpadSpec == TInit /\ [][TNext]_vars

(***************************************************************************)
(* Properties of the trackpad adapter.  They are stated of the handler as  *)
(* it would handle, in the current state, each update the hook can bring.  *)
(***************************************************************************)
AfterUpdate(new_finger_positions) ==
  handle_hook_trackpad_finger_positions_updating(World, new_finger_positions)

OfTrackingFingers(new_finger_positions) ==
  [i \in DOMAIN new_finger_positions \cap trackpad_state.fingers_making_gesture |->
     new_finger_positions[i]]

\* C13: while the trackpad is making a gesture, an update that does not end
\* the gesture leaves fingers_making_gesture as it is; the fingers that are
\* not in it contribute nothing to what is fed to the recognizer (the update
\* feeds what it would feed, and leaves gesture_state as it would, without
\* them); and an update in which none of the fingers making the gesture is on
\* the pad ends the gesture, whatever other fingers it brings.
C13_FixedTrackingSet ==
  \A new \in Hands :
    trackpad_state.is_making_gesture =>
      LET after == AfterUpdate(new)
          without == AfterUpdate(OfTrackingFingers(new))
      IN  /\ after.trackpad_state.is_making_gesture =>
               after.trackpad_state.fingers_making_gesture
                 = trackpad_state.fingers_making_gesture
          /\ after.fed = without.fed
          /\ after.gesture_state = without.gesture_state
          /\ DOMAIN new \cap trackpad_state.fingers_making_gesture = {} =>
               /\ ~after.trackpad_state.is_making_gesture
               /\ after.gesture_state.gesture_source = "none"

\* C13: the trackpad is making a gesture with four fingers, has recognized a
\* movement, and a fifth finger is on the pad.
C13_FifthFingerJoined ==
  /\ trackpad_state.is_making_gesture
  /\ Cardinality(trackpad_state.fingers_making_gesture) = 4
  /\ DOMAIN trackpad_state.prev_recorded_finger_positions
       \ trackpad_state.fingers_making_gesture # {}
  /\ Len(gesture_state.gesture_recognized) > 0

====
